---- MODULE Spec2Model ----
(***************************************************************************)
(* Belief-matrix engine (pyworker/matrix.py), planner state                *)
(* (pyworker/monte.py), remote query client (api.py, models.py) and the    *)
(* exploration coordinator that drives them.                               *)
(*                                                                         *)
(* Numbers.  numpy float64 values are modelled in fixed point: the integer *)
(* v stands for the real v / SCALE.  exp and log2 are computed by integer  *)
(* algorithms (range reduction + Taylor series, repeated squaring), so     *)
(* soft_max and calc_entropy are computed, not assumed.                    *)
(*                                                                         *)
(* Objects.  numpy arrays are objects: the heap maps a reference to the    *)
(* array's content, and an operation that allocates returns a fresh        *)
(* reference.  Two names alias when they hold the same reference.          *)
(***************************************************************************)
EXTENDS Integers, Sequences, FiniteSets, TLC

\* ---------------------------------------------------------------- bounds
NumRooms == 2          \* rooms known once evidence arrives (matrix size)
SmallBudget == 3       \* a configured door budget below DOORS
MaxBudget == 7         \* a configured door budget above DOORS
MaxRounds == 3         \* configured round-count ceiling
MaxRetries == 1        \* configured retries of a failed query call
PlanCap == 2           \* per-query cap on the length of one plan
NumWorkers == 2        \* parallel rollouts of one planning round
MaxSize == 2           \* largest matrix handed to the matrix library
MaxChain == 2          \* calls in a row, each on the result of the one before
MaxLines == 3          \* lines the watched file comes to hold
MaxStates == 4         \* entries graph_states comes to hold
NumReaders == 2        \* request threads calling check_for_new_states
NumControls == 2       \* request threads handling /api/auto_generate
MaxGenerators == 2     \* auto-generation threads ever started

\* ------------------------------------------------------ program constants
DOORS == 6
SCALE == 10000
\* np.finfo(np.float64).smallest_normal is about 2.2e-308: below one unit
\* of the fixed-point grid, so x > LEAST_NONZERO_MAGNITUDE is x > 0.
LEAST_NONZERO_MAGNITUDE == 0
\* 1.0 - LEAST_NONZERO_MAGNITUDE rounds to 1.0 in float64.
ONE_MINUS_LEAST == SCALE - LEAST_NONZERO_MAGNITUDE

\* ------------------------------------------------------------ arithmetic
\* The value of a singleton set.  The({e(x) : x \in {v}}) is e(v) with v
\* evaluated once, as a call evaluates its argument once.
The(S) == CHOOSE x \in S : TRUE

MaxOf(a, b) == The({IF x >= y THEN x ELSE y : x \in {a}, y \in {b}})
MinOf(a, b) == The({IF x <= y THEN x ELSE y : x \in {a}, y \in {b}})

RECURSIVE SeqSum(_)
SeqSum(s) == IF s = << >> THEN 0 ELSE Head(s) + SeqSum(Tail(s))

RECURSIVE SeqMax(_)
SeqMax(s) == IF Len(s) = 1 THEN s[1] ELSE MaxOf(Head(s), SeqMax(Tail(s)))

\* Rounded division of non-negative a by positive b.
RoundDiv(a, b) == (2 * a + b) \div (2 * b)

\* np.exp(-d / SCALE) * SCALE for d >= 0: Taylor series to the fourth
\* order below SCALE / 8, exp(-(a + b)) = exp(-a) * exp(-b) above.
ExpSmall(d) ==
    The({The({The({SCALE - d + t2 - t3 + t4 :
                      t4 \in {RoundDiv(t3 * d, 4 * SCALE)}}) :
                 t3 \in {RoundDiv(t2 * d, 3 * SCALE)}}) :
            t2 \in {RoundDiv(d * d, 2 * SCALE)}})

RECURSIVE ExpNeg(_)
ExpNeg(d) ==
    IF d > 40 * SCALE THEN 0
    ELSE IF 8 * d <= SCALE THEN ExpSmall(d)
    ELSE The({RoundDiv(ExpNeg(a) * ExpNeg(b), SCALE) :
                 a \in {d \div 2}, b \in {d - d \div 2}})

\* np.log2(x / SCALE) * SCALE for 0 < x <= SCALE: the integer part by
\* doubling x into [SCALE, 2 * SCALE), the fraction by repeated squaring.
RECURSIVE Log2Frac(_, _, _)
Log2Frac(y, bit, n) ==
    IF n = 0 \/ bit = 0 THEN 0
    ELSE The({IF sq >= 2 * SCALE
              THEN bit + Log2Frac(sq \div 2, bit \div 2, n - 1)
              ELSE Log2Frac(sq, bit \div 2, n - 1) :
                 sq \in {(y * y) \div SCALE}})

RECURSIVE Log2Fix(_)
Log2Fix(x) ==
    The({IF v >= SCALE THEN Log2Frac(v, SCALE \div 2, 14)
         ELSE Log2Fix(2 * v) - SCALE : v \in {x}})

\* ---------------------------------------------------------------- matrix
\* A matrix is a sequence of rows, each a sequence of fixed-point numbers.
\* ValueError is the result of a call that raises ValueError.
ValueError == << >>

\* A float that is not a number (0 * inf), distinct from every number.
NaN == 0 - (1000 * SCALE)

Size(m) == Len(m)

create_matrix_with_value(size, value) ==
    IF size <= 0 THEN ValueError
    ELSE [i \in 1..size |-> [j \in 1..size |-> value]]

\* Faulty variant: create_matrix without the test of the row lengths.
create_matrix_any_shape(matrix_data) ==
    IF Len(matrix_data) = 0 THEN ValueError ELSE matrix_data

create_matrix(matrix_data) ==
    IF Len(matrix_data) = 0
       \/ \E i \in 1..Len(matrix_data) : Len(matrix_data[i]) # Len(matrix_data)
    THEN ValueError
    ELSE matrix_data

empty_matrix == create_matrix_with_value(1, 0)

is_empty(matrix) == Size(matrix) = 1 /\ matrix[1][1] = 0

\* Faulty variant: the loop body without result[:, i] = normalized_values.
SoftMaxRowStoreNoMirror(result, i, row_sum, normalized_values) ==
    IF row_sum > LEAST_NONZERO_MAGNITUDE
    THEN [r \in 1..Size(result) |->
            IF r = i THEN normalized_values ELSE result[r]]
    ELSE result

\* One pass of the loop body of soft_max for row i (1-based).
SoftMaxRowStore(result, i, row_sum, normalized_values) ==
    IF row_sum > LEAST_NONZERO_MAGNITUDE
    THEN [r \in 1..Size(result) |->
            [c \in 1..Size(result) |->
                IF c = i THEN normalized_values[r]      \* result[:, i]
                ELSE IF r = i THEN normalized_values[c] \* result[i, :]
                ELSE result[r][c]]]
    ELSE result

SoftMaxRow(result, i) ==
    The({The({The({SoftMaxRowStore(result, i, row_sum, normalized_values) :
                      normalized_values \in
                          {[j \in 1..Size(result) |->
                               RoundDiv(row_exp_values[j] * SCALE, row_sum)]}}) :
                 row_sum \in {SeqSum(row_exp_values)}}) :
            row_exp_values \in
                {[j \in 1..Size(result) |->
                     ExpNeg(SeqMax(result[i]) - result[i][j])]}})

\* The loop over the rows; each pass works on the array the pass before
\* left.
RECURSIVE SoftMaxLoop(_, _)
SoftMaxLoop(result, i) ==
    IF i > Size(result) THEN result
    ELSE The({SoftMaxLoop(next, i + 1) : next \in {SoftMaxRow(result, i)}})

\* Faulty variant: soft_max without the early return for the sentinel.
soft_max_always(matrix) == SoftMaxLoop(matrix, 1)

\* The content of the matrix soft_max returns.
soft_max(matrix) ==
    The({IF is_empty(m) THEN m ELSE SoftMaxLoop(m, 1) : m \in {matrix}})

MatAdd(matrix1, matrix2) ==
    [i \in 1..Size(matrix1) |->
        [j \in 1..Size(matrix1) |-> matrix1[i][j] + matrix2[i][j]]]

\* Faulty variant: matrix_or without the test of the shapes; matrix1 +
\* matrix2 then broadcasts a 1 x 1 operand over the other one.
matrix_or_broadcast(matrix1, matrix2) ==
    IF Size(matrix1) # Size(matrix2) /\ Size(matrix1) # 1 /\ Size(matrix2) # 1
    THEN ValueError
    ELSE soft_max([i \in 1..MaxOf(Size(matrix1), Size(matrix2)) |->
                     [j \in 1..MaxOf(Size(matrix1), Size(matrix2)) |->
                        (IF Size(matrix1) = 1 THEN matrix1[1][1] ELSE matrix1[i][j])
                        + (IF Size(matrix2) = 1 THEN matrix2[1][1] ELSE matrix2[i][j])]])

\* The content of the matrix matrix_or returns.
matrix_or(matrix1, matrix2) ==
    IF Size(matrix1) # Size(matrix2) THEN ValueError
    ELSE soft_max(MatAdd(matrix1, matrix2))

\* np.clip(v, LEAST_NONZERO_MAGNITUDE, 1.0 - LEAST_NONZERO_MAGNITUDE)
Clip(v) == MaxOf(LEAST_NONZERO_MAGNITUDE, MinOf(v, ONE_MINUS_LEAST))

\* -(p * log2(p) + (1 - p) * log2(1 - p)) as float64 computes it: the clip
\* leaves exactly 0.0 and exactly 1.0 in place; p = 0 gives 0 * log2(tiny)
\* + 1 * log2(1) = 0, p = 1 gives 0 * log2(0) = 0 * -inf = nan.
BinaryEntropy(v) ==
    The({IF p <= 0 THEN 0
         ELSE IF p >= SCALE THEN NaN
         ELSE RoundDiv(0 - (p * Log2Fix(p) + (SCALE - p) * Log2Fix(SCALE - p)),
                       SCALE) :
            p \in {Clip(v)}})

FloatAdd(a, b) ==
    The({IF x = NaN \/ y = NaN THEN NaN ELSE x + y : x \in {a}, y \in {b}})
FloatLess(a, b) == a # NaN /\ b # NaN /\ a < b

RECURSIVE EntropyFrom(_, _, _)
EntropyFrom(matrix, i, j) ==
    IF i > Size(matrix) THEN 0
    ELSE IF j > Size(matrix) THEN EntropyFrom(matrix, i + 1, i + 1)
    ELSE FloatAdd(BinaryEntropy(matrix[i][j]), EntropyFrom(matrix, i, j + 1))

calc_entropy(matrix) ==
    IF is_empty(matrix) THEN 0 ELSE EntropyFrom(matrix, 1, 1)

\* Faulty variant: is_valid without the loop over the columns.
is_valid_rows_only(matrix) ==
    IF is_empty(matrix) THEN FALSE
    ELSE \A i \in 1..Size(matrix) :
            \E j \in 1..Size(matrix) : matrix[i][j] > LEAST_NONZERO_MAGNITUDE

\* Faulty variant: the tests of is_valid inverted (a row or column with an entry
\* above the floor makes the matrix invalid).
is_valid_inverted(matrix) ==
    IF is_empty(matrix) THEN FALSE
    ELSE /\ \A i \in 1..Size(matrix) :
              ~ \E j \in 1..Size(matrix) : matrix[i][j] > LEAST_NONZERO_MAGNITUDE
         /\ \A j \in 1..Size(matrix) :
              ~ \E i \in 1..Size(matrix) : matrix[i][j] > LEAST_NONZERO_MAGNITUDE

is_valid(matrix) ==
    IF is_empty(matrix) THEN FALSE
    ELSE /\ \A i \in 1..Size(matrix) :
              \E j \in 1..Size(matrix) : matrix[i][j] > LEAST_NONZERO_MAGNITUDE
         /\ \A j \in 1..Size(matrix) :
              \E i \in 1..Size(matrix) : matrix[i][j] > LEAST_NONZERO_MAGNITUDE

\* Faulty variant: np.sum(matrix > LEAST_NONZERO_MAGNITUDE) read as a truth
\* value, the line the source keeps as a comment.
count_non_zero_any(matrix) ==
    IF \E i \in 1..Size(matrix), j \in 1..Size(matrix) : matrix[i][j] # 0
    THEN 1 ELSE 0

\* np.count_nonzero(matrix).item()
count_non_zero(matrix) ==
    Cardinality({ij \in (1..Size(matrix)) \X (1..Size(matrix)) :
                    matrix[ij[1]][ij[2]] # 0})

\* ------------------------------------------------------------------ heap
\* The smallest reference not in use.
RECURSIVE FreshFrom(_, _)
FreshFrom(h, r) == IF r \in DOMAIN h THEN FreshFrom(h, r + 1) ELSE r

\* A new array object holding content v.
Alloc(h, v) ==
    LET r == FreshFrom(h, 1)
    IN  [h |-> [q \in DOMAIN h \cup {r} |-> IF q = r THEN v ELSE h[q]], r |-> r]

\* The objects in rs are no longer referenced.
Free(h, rs) == [q \in DOMAIN h \ rs |-> h[q]]

\* Faulty variant: copy_matrix returns its argument (return matrix).
copy_matrix_alias(h, matrix) == [h |-> h, r |-> matrix]

\* matrix.copy(): a new object with the content of the argument.
copy_matrix(h, matrix) == Alloc(h, h[matrix])

\* soft_max as a call on objects: result = matrix.copy(), the rows and
\* columns are then written into result, and result is returned.
soft_max_call(h, matrix) ==
    The({[h |-> [c.h EXCEPT ![c.r] = soft_max(c.h[matrix])], r |-> c.r] :
            c \in {Alloc(h, h[matrix])}})

\* matrix_or as a call on objects (both arguments of one shape):
\* result = matrix1 + matrix2 is a new object, soft_max(result) another;
\* the sum is dropped on return.
matrix_or_call(h, matrix1, matrix2) ==
    The({The({[h |-> Free(res.h, {sum.r}), r |-> res.r] :
                 res \in {soft_max_call(sum.h, sum.r)}}) :
            sum \in {Alloc(h, MatAdd(h[matrix1], h[matrix2]))}})

\* --------------------------------------------------------------- planner
\* Faulty variant: range(1, DOORS + 1).
getPossibleActionsFromOne == [i \in 1..DOORS |-> i]

\* Faulty variant: range(DOORS - 1).
getPossibleActionsOneShort == [i \in 1..(DOORS - 1) |-> i - 1]

\* State.getPossibleActions: [i for i in range(DOORS)]
getPossibleActions == [i \in 1..DOORS |-> i - 1]

\* Convergence threshold on the entropy (configuration), in fixed point.
EntropyThreshold == 26650

Converged(matrix) ==
    is_valid(matrix) /\ FloatLess(calc_entropy(matrix), EntropyThreshold)

\* One plan per possible action, each a single door.
SingleDoorPlans == [k \in 1..Len(getPossibleActions) |-> <<getPossibleActions[k]>>]

\* The refinement plan: the best door, repeated up to the per-query cap and
\* never past the remaining budget.
PlanLength(remaining) == MinOf(PlanCap, remaining)

RefinementPlan(door, remaining) == [k \in 1..PlanLength(remaining) |-> door]

\* The plans of one planning round, given whether the belief has converged
\* and whether it is the empty sentinel.
PlansFor(converged, empty, remaining, door) ==
    IF converged \/ remaining <= 0 THEN << >>
    ELSE IF empty
         THEN SubSeq(SingleDoorPlans, 1, MinOf(Len(SingleDoorPlans), remaining))
         ELSE << RefinementPlan(door, remaining) >>

PlanRound(matrix, remaining, door) ==
    PlansFor(Converged(matrix), is_empty(matrix), remaining, door)

RECURSIVE DoorCount(_)
DoorCount(ps) == IF ps = << >> THEN 0 ELSE Len(Head(ps)) + DoorCount(Tail(ps))

\* ---------------------------------------------------------- query client
\* HTTPTaskClient._post: a status other than 200 raises HTTPError; status 0
\* stands for a call that got no response (httpx raises on a timeout or a
\* connection error).  Otherwise the body is returned, parsed.
HttpStatuses == {200, 500, 0}

\* Faulty variant: the status of the response is not looked at.
_post_any_status(status, body) == [raised |-> FALSE, value |-> body]

_post(status, body) ==
    IF status # 200 THEN [raised |-> TRUE, value |-> << >>]
    ELSE [raised |-> FALSE, value |-> body]

explore(status, body) == _post(status, body)
select_problem(status) == _post(status, << >>)
guess(status) == _post(status, << >>)

\* Faulty variant: the coordinator expects one label per door.
ExpectedLabelsPerDoor(plan) == Len(plan)

\* The number of labels the coordinator expects for a plan: the label of
\* the start room and one label per door taken.
ExpectedLabels(plan) == Len(plan) + 1

\* The hidden maps the query service may be answering from: in map 0
\* every door leads back to a room labelled 0, in map 1 the label reached
\* depends on the door and on the position in the plan.
Oracles == {0, 1}

\* The labels the service returns for one plan: the start room's label 0,
\* then the label of the room behind each door.
Answer(o, plan) ==
    [k \in 1..(Len(plan) + 1) |->
        IF k = 1 THEN 0 ELSE (o * (plan[k - 1] + k)) % NumRooms]

\* The same answer with its last label missing.
Truncated(labels) == SubSeq(labels, 1, Len(labels) - 1)

\* All answers to a batch of plans: at most one of the results is short.
ResponseChoices(ps) ==
    {[k \in 1..Len(ps) |->
        IF k = bad THEN Truncated(Answer(o, ps[k])) ELSE Answer(o, ps[k])] :
      o \in Oracles, bad \in 0..Len(ps)}

\* The evidence of one label sequence: the rooms of consecutive labels are
\* adjacent.
Evidence(labels) ==
    [i \in 1..NumRooms |->
        [j \in 1..NumRooms |->
            IF \E k \in 1..(Len(labels) - 1) :
                  \/ labels[k] = i - 1 /\ labels[k + 1] = j - 1
                  \/ labels[k] = j - 1 /\ labels[k + 1] = i - 1
            THEN SCALE ELSE 0]]

\* The coordinator's merge of evidence into the object `target`, in place:
\* the matrix is widened first when it is smaller than the evidence.
MergeInto(h, target, ev) ==
    LET wide == IF Size(h[target]) # Size(ev)
                THEN [h EXCEPT ![target] = create_matrix_with_value(Size(ev), 0)]
                ELSE h
    IN  The({The({Free([o.h EXCEPT ![target] = o.h[o.r]], {e.r, o.r}) :
                     o \in {matrix_or_call(e.h, target, e.r)}}) :
                e \in {Alloc(wide, ev)}})

\* The room each room's row points to with the highest probability (lowest
\* index on a tie).
RECURSIVE ArgMax(_, _, _)
ArgMax(row, j, bestj) ==
    IF j > Len(row) THEN bestj
    ELSE ArgMax(row, j + 1, IF row[j] > row[bestj] THEN j ELSE bestj)

\* Faulty variant: the lowest-probability room is selected.
RECURSIVE ArgMin(_, _, _)
ArgMin(row, j, bestj) ==
    IF j > Len(row) THEN bestj
    ELSE ArgMin(row, j + 1, IF row[j] < row[bestj] THEN j ELSE bestj)

FinalMapLowest(matrix) == [i \in 1..Size(matrix) |-> ArgMin(matrix[i], 1, 1)]

FinalMap(matrix) == [i \in 1..Size(matrix) |-> ArgMax(matrix[i], 1, 1)]

\* ----------------------------------------------------------- coordinator
VARIABLES
    state,        \* the coordinator's state
    budget,       \* configured total door budget
    heap,         \* reference -> content of every live matrix object
    belief,       \* State.matrix: reference of the authoritative belief matrix
    steps,        \* State.steps: the doors taken so far
    outcomes,     \* State.outcomes: the outcome log
    queryCount,   \* doors traversed across all returned plans
    rounds,       \* planning rounds started
    plans,        \* the plans of the current round
    inflight,     \* a query call is in flight
    attempts,     \* failed attempts of the current call
    response,     \* the results being integrated
    idx,          \* position of the next result to integrate
    cancelled,    \* a cancellation was requested
    workers,      \* per rollout worker: pc, private matrix, door
    expanded,     \* door actions materialised in this planning round
    best,         \* best (door, reward) backed up in this planning round
    mapOut,       \* the discrete map, once produced
    finalized,    \* the finalizing step has run
    roundStart,   \* belief content, log and counter when the round began
    calls,        \* statuses of the query calls of this round that have ended
    convergedCount, \* how many times CONVERGED was entered
    note,         \* what the last coordinator step did
    lastCall,     \* the last call into the matrix library: operation, arguments, result
    fileLines,    \* the watched JSONL file: per complete line, the thread that wrote it
    graph_states, \* app.py graph_states: the lines added, by their number in the file
    last_position, \* app.py last_position, in lines
    states_lock,  \* app.py states_lock: the reader holding it, or 0
    auto_generation_thread, \* app.py auto_generation_thread: a generator, or 0 for None
    auto_generation_stop,   \* app.py auto_generation_stop: the event is set
    readers,      \* per thread in check_for_new_states: pc and locals
    controls,     \* per thread in control_auto_generation: pc, joined thread, response
    generators,   \* per auto-generation thread: pc
    stopped       \* the generators a stop request answered success for

vars == <<state, budget, heap, belief, steps, outcomes, queryCount, rounds,
          plans, inflight, attempts, response, idx, cancelled, workers,
          expanded, best, mapOut, finalized, roundStart, calls,
          convergedCount, note, lastCall, fileLines, graph_states,
          last_position, states_lock, auto_generation_thread,
          auto_generation_stop, readers, controls, generators, stopped>>

\* The state of the visualisation service.
vizVars == <<fileLines, graph_states, last_position, states_lock,
             auto_generation_thread, auto_generation_stop, readers, controls,
             generators, stopped>>

Readers == 1..NumReaders
Controls == 1..NumControls
Generators == 1..MaxGenerators

IdleReader == [pc |-> "idle", from_position |-> 0, new_states |-> << >>,
               new_position |-> 0]
NoResponse == [action |-> "none", success |-> FALSE]
IdleControl == [pc |-> "idle", target |-> 0, response |-> NoResponse]

\* app.py __main__: the sample file was created and load_all_states read it
\* to its end; no request is being handled and no generator exists.
VizStart ==
    /\ fileLines = <<0>>
    /\ graph_states = <<1>>
    /\ last_position = 1
    /\ states_lock = 0
    /\ auto_generation_thread = 0
    /\ auto_generation_stop = FALSE
    /\ readers = [t \in Readers |-> IdleReader]
    /\ controls = [c \in Controls |-> IdleControl]
    /\ generators = [g \in Generators |-> "unborn"]
    /\ stopped = {}

Workers == 1..NumWorkers
IdleWorker == [pc |-> "idle", priv |-> 0, door |-> 0]
NoBest == [door |-> 0 - 1, reward |-> 0]
NoMap == << >>
NoCall == [op |-> "none", args |-> << >>, raised |-> FALSE, result |-> << >>,
           prev |-> "none", depth |-> 0]

Remaining == budget - queryCount

Snapshot == [matrix |-> heap[belief], outcomes |-> outcomes, queryCount |-> queryCount]

\* Faulty variant: no ceiling on the rounds.
CeilingNever(n) == FALSE

\* The round-count ceiling.
CeilingReached(n) == n >= MaxRounds

\* Whether integration ends the exploration.
ShouldConverge(matrix, count) == Converged(matrix) \/ count >= budget

Init ==
    /\ state = "INITIALIZING"
    /\ budget \in {SmallBudget, MaxBudget}
    /\ heap = Alloc(<< >>, empty_matrix).h
    /\ belief = 1
    /\ steps = << >>
    /\ outcomes = << >>
    /\ queryCount = 0
    /\ rounds = 0
    /\ plans = << >>
    /\ inflight = FALSE
    /\ attempts = 0
    /\ response = << >>
    /\ idx = 1
    /\ cancelled = FALSE
    /\ workers = [w \in Workers |-> IdleWorker]
    /\ expanded = 0
    /\ best = NoBest
    /\ mapOut = NoMap
    /\ finalized = FALSE
    /\ roundStart = [matrix |-> empty_matrix, outcomes |-> << >>, queryCount |-> 0]
    /\ calls = << >>
    /\ convergedCount = 0
    /\ note = "init"
    /\ lastCall = NoCall
    /\ VizStart

\* INITIALIZING: the problem is selected; a failed call is retried.
Initialize(status) ==
    /\ state = "INITIALIZING"
    /\ LET r == select_problem(status)
       IN  IF ~r.raised
           THEN /\ state' = "PLANNING"
                /\ attempts' = 0
                /\ note' = "selected"
           ELSE IF attempts < MaxRetries
           THEN /\ state' = state
                /\ attempts' = attempts + 1
                /\ note' = "retry"
           ELSE /\ state' = "ABORTED"
                /\ attempts' = 0
                /\ note' = "retries exhausted"
    /\ UNCHANGED <<lastCall, vizVars>>
    /\ UNCHANGED <<calls, convergedCount, budget, heap, belief, steps, outcomes, queryCount, rounds,
                   plans, inflight, response, idx, cancelled, workers,
                   expanded, best, mapOut, finalized, roundStart>>

\* A rollout starts: the next untried door is materialised and the belief
\* is copied for the simulation.
RolloutExpand(w) ==
    /\ state = "PLANNING"
    /\ ~is_empty(heap[belief])
    /\ workers[w].pc = "idle"
    /\ expanded < Len(getPossibleActions)
    /\ LET c == copy_matrix(heap, belief)
       IN  /\ heap' = c.h
           /\ workers' = [workers EXCEPT ![w] =
                 [pc |-> "sim", priv |-> c.r, door |-> getPossibleActions[expanded + 1]]]
    /\ expanded' = expanded + 1
    /\ note' = "rollout"
    /\ UNCHANGED <<lastCall, vizVars>>
    /\ UNCHANGED <<calls, convergedCount, state, budget, belief, steps, outcomes, queryCount, rounds,
                   plans, inflight, attempts, response, idx, cancelled, best,
                   mapOut, finalized, roundStart>>

\* The rollout applies its action to its private copy: a sampled outcome
\* is merged into the copy, in place.
RolloutSimulate(w) ==
    /\ state = "PLANNING"
    /\ workers[w].pc = "sim"
    /\ \E o \in Oracles :
          \E merged \in {MergeInto(heap, workers[w].priv,
                                   Evidence(Answer(o, <<workers[w].door>>)))} :
             heap' = merged
    /\ workers' = [workers EXCEPT ![w].pc = "back"]
    /\ note' = "rollout"
    /\ UNCHANGED <<lastCall, vizVars>>
    /\ UNCHANGED <<calls, convergedCount, state, budget, belief, steps, outcomes, queryCount, rounds,
                   plans, inflight, attempts, response, idx, cancelled,
                   expanded, best, mapOut, finalized, roundStart>>

\* Backpropagation (single-threaded): the entropy reduction of the rollout
\* is its reward; the best average reward wins, the lowest door on a tie.
RolloutBackprop(w) ==
    /\ state = "PLANNING"
    /\ workers[w].pc = "back"
    /\ \E reward \in {calc_entropy(heap[belief])
                          - calc_entropy(heap[workers[w].priv])},
          door \in {workers[w].door} :
           best' = IF \/ best.door < 0
                      \/ reward > best.reward
                      \/ reward = best.reward /\ door < best.door
                   THEN [door |-> door, reward |-> reward]
                   ELSE best
    /\ heap' = Free(heap, {workers[w].priv})
    /\ workers' = [workers EXCEPT ![w] = [pc |-> "done", priv |-> 0, door |-> 0]]
    /\ note' = "rollout"
    /\ UNCHANGED <<lastCall, vizVars>>
    /\ UNCHANGED <<calls, convergedCount, state, budget, belief, steps, outcomes, queryCount, rounds,
                   plans, inflight, attempts, response, idx, cancelled,
                   expanded, mapOut, finalized, roundStart>>

\* PLANNING -> AWAITING_RESULTS, the one point where a cancellation request
\* is looked at.
Plan ==
    /\ state = "PLANNING"
    /\ \/ is_empty(heap[belief])
       \/ \A w \in Workers : workers[w].pc = "done"
    /\ IF cancelled
       THEN /\ state' = "ABORTED"
            /\ note' = "cancelled"
            /\ UNCHANGED <<plans, rounds, roundStart>>
       ELSE /\ state' = "AWAITING_RESULTS"
            /\ plans' = PlanRound(heap[belief], Remaining, best.door)
            /\ rounds' = MinOf(rounds + 1, MaxRounds)
            /\ roundStart' = Snapshot
            /\ note' = "planned"
    /\ attempts' = 0
    /\ response' = << >>
    /\ idx' = 1
    /\ calls' = << >>
    /\ UNCHANGED <<lastCall, vizVars>>
    /\ UNCHANGED <<convergedCount, budget, heap, belief, steps, outcomes,
                   queryCount, inflight, cancelled, workers, expanded, best,
                   mapOut, finalized>>

\* AWAITING_RESULTS: the plans are handed to the query service.
Send ==
    /\ state = "AWAITING_RESULTS"
    /\ ~inflight
    /\ inflight' = TRUE
    /\ note' = "sent"
    /\ UNCHANGED <<lastCall, vizVars>>
    /\ UNCHANGED <<calls, convergedCount, state, budget, heap, belief, steps, outcomes, queryCount,
                   rounds, plans, attempts, response, idx, cancelled, workers,
                   expanded, best, mapOut, finalized, roundStart>>

\* Faulty variant: the result is kept whether or not the session is cancelled.
AcceptedAlways(cancel, value) == value

\* What the coordinator keeps of a returned result: nothing in a cancelled
\* session.
Accepted(cancel, value) == IF cancel THEN << >> ELSE value

\* The call in flight returns.  A result that arrives in a cancelled
\* session is dropped; a failed call is retried MaxRetries times, after
\* which the round has failed and the session either aborts or goes on.
Return ==
    /\ state = "AWAITING_RESULTS"
    /\ inflight
    /\ inflight' = FALSE
    /\ \E status \in HttpStatuses, body \in ResponseChoices(plans), abort \in BOOLEAN :
       LET r == explore(status, body)
       IN  /\ calls' = Append(calls, status)
           /\ IF ~r.raised
              THEN /\ state' = "INTEGRATING"
                   /\ response' = Accepted(cancelled, r.value)
                   /\ attempts' = 0
                   /\ note' = IF cancelled THEN "result dropped" ELSE "returned"
              ELSE IF attempts < MaxRetries
              THEN /\ state' = state
                   /\ attempts' = attempts + 1
                   /\ response' = << >>
                   /\ note' = "retry"
              ELSE /\ state' = IF abort THEN "ABORTED" ELSE "INTEGRATING"
                   /\ attempts' = 0
                   /\ response' = << >>
                   /\ note' = "retries exhausted"
    /\ idx' = 1
    /\ UNCHANGED <<lastCall, vizVars>>
    /\ UNCHANGED <<convergedCount, budget, heap, belief, steps, outcomes,
                   queryCount, rounds, plans, cancelled, workers, expanded,
                   best, mapOut, finalized, roundStart>>

\* INTEGRATING, one result: the doors of its plan are counted; a result
\* with the wrong number of labels is dropped, any other is merged into the
\* belief and logged.  Reaching the budget ends the integration at once.
IntegrateOne ==
    /\ state = "INTEGRATING"
    /\ idx <= Len(response)
    /\ LET plan == plans[idx]
           labels == response[idx]
           count == queryCount + Len(plan)
       IN  /\ queryCount' = count
           /\ steps' = steps \o plan
           /\ IF Len(labels) = ExpectedLabels(plan)
              THEN \E merged \in {MergeInto(heap, belief, Evidence(labels))} :
                   /\ heap' = merged
                   /\ outcomes' = Append(outcomes,
                         [current_room |-> labels[Len(labels)],
                          entropy |-> calc_entropy(merged[belief]),
                          matrix |-> merged[belief]])
                   /\ note' = "merged"
              ELSE /\ UNCHANGED <<heap, outcomes>>
                   /\ note' = "malformed dropped"
           /\ state' = IF count >= budget THEN "CONVERGED" ELSE state
           /\ convergedCount' = IF count >= budget THEN convergedCount + 1
                                 ELSE convergedCount
    /\ idx' = idx + 1
    /\ UNCHANGED <<lastCall, vizVars>>
    /\ UNCHANGED <<calls, budget, belief, rounds, plans, inflight, attempts, response,
                   cancelled, workers, expanded, best, mapOut, finalized,
                   roundStart>>

\* INTEGRATING, all results seen: converge, replan, or stop at the ceiling.
IntegrateDone ==
    /\ state = "INTEGRATING"
    /\ idx > Len(response)
    /\ IF ShouldConverge(heap[belief], queryCount)
       THEN /\ state' = "CONVERGED"
            /\ convergedCount' = convergedCount + 1
            /\ note' = "converged"
       ELSE /\ state' = IF CeilingReached(rounds) THEN "ABORTED" ELSE "PLANNING"
            /\ convergedCount' = convergedCount
            /\ note' = IF CeilingReached(rounds) THEN "ceiling" ELSE "replan"
    /\ workers' = [w \in Workers |-> IdleWorker]
    /\ expanded' = 0
    /\ best' = NoBest
    /\ UNCHANGED <<lastCall, vizVars>>
    /\ UNCHANGED <<calls, budget, heap, belief, steps, outcomes, queryCount, rounds,
                   plans, inflight, attempts, response, idx, cancelled,
                   mapOut, finalized, roundStart>>

\* Faulty variant: CONVERGED goes straight to DONE.
ConvergeSkipsFinalizing ==
    /\ state = "CONVERGED"
    /\ state' = "DONE"
    /\ attempts' = 0
    /\ note' = "submitted"
    /\ UNCHANGED <<lastCall, vizVars>>
    /\ UNCHANGED <<calls, convergedCount, budget, heap, belief, steps, outcomes,
                   queryCount, rounds, plans, inflight, response, idx,
                   cancelled, workers, expanded, best, mapOut, finalized,
                   roundStart>>

\* CONVERGED -> FINALIZING.
Converge ==
    /\ state = "CONVERGED"
    /\ state' = "FINALIZING"
    /\ attempts' = 0
    /\ note' = "finalizing"
    /\ UNCHANGED <<lastCall, vizVars>>
    /\ UNCHANGED <<calls, convergedCount, budget, heap, belief, steps, outcomes, queryCount, rounds,
                   plans, inflight, response, idx, cancelled, workers,
                   expanded, best, mapOut, finalized, roundStart>>

\* FINALIZING: the belief is turned into a map and the map is submitted;
\* a failed submission is retried.
Finalize(status) ==
    /\ state = "FINALIZING"
    /\ mapOut' = FinalMap(heap[belief])
    /\ finalized' = TRUE
    /\ LET r == guess(status)
       IN  IF ~r.raised
           THEN /\ state' = "DONE"
                /\ attempts' = 0
                /\ note' = "submitted"
           ELSE IF attempts < MaxRetries
           THEN /\ state' = state
                /\ attempts' = attempts + 1
                /\ note' = "retry"
           ELSE /\ state' = "ABORTED"
                /\ attempts' = 0
                /\ note' = "retries exhausted"
    /\ UNCHANGED <<lastCall, vizVars>>
    /\ UNCHANGED <<calls, convergedCount, budget, heap, belief, steps, outcomes, queryCount, rounds,
                   plans, inflight, response, idx, cancelled, workers,
                   expanded, best, roundStart>>

\* The best-effort finalizing step of an aborted session.
BestEffortFinalize ==
    /\ state = "ABORTED"
    /\ note # "best effort"
    /\ mapOut' = FinalMap(heap[belief])
    /\ finalized' = TRUE
    /\ note' = "best effort"
    /\ UNCHANGED <<lastCall, vizVars>>
    /\ UNCHANGED <<calls, convergedCount, state, budget, heap, belief, steps, outcomes, queryCount,
                   rounds, plans, inflight, attempts, response, idx, cancelled,
                   workers, expanded, best, roundStart>>

\* A cancellation request arrives, at any time before the session ends.
Cancel ==
    /\ state \notin {"DONE", "ABORTED"}
    /\ ~cancelled
    /\ cancelled' = TRUE
    /\ UNCHANGED <<lastCall, vizVars>>
    /\ UNCHANGED <<calls, convergedCount, state, budget, heap, belief, steps, outcomes, queryCount,
                   rounds, plans, inflight, attempts, response, idx, workers,
                   expanded, best, mapOut, finalized, roundStart, note>>

Next ==
    \/ \E status \in HttpStatuses : Initialize(status)
    \/ \E w \in Workers : RolloutExpand(w)
    \/ \E w \in Workers : RolloutSimulate(w)
    \/ \E w \in Workers : RolloutBackprop(w)
    \/ Plan
    \/ Send
    \/ Return
    \/ IntegrateOne
    \/ IntegrateDone
    \/ Converge
    \/ \E status \in HttpStatuses : Finalize(status)
    \/ BestEffortFinalize
    \/ Cancel

Spec == Init /\ [][Next]_vars

\* The coordinator's loop keeps running and a call in flight always ends
\* (it returns or times out).
FairSpec == Spec /\ WF_vars(Next)

\* ------------------------------------------------- the library, as called
\* A caller of matrix.py and monte.py: it holds two matrices, calls one
\* operation on them, and may call a further operation on the array the
\* first call returned.  lastCall records the call; the arrays live in heap.
coordinatorVars == <<state, budget, belief, steps, outcomes, queryCount, rounds,
                     plans, inflight, attempts, response, idx, cancelled,
                     workers, expanded, best, mapOut, finalized, roundStart,
                     calls, convergedCount, note>>

\* Entries of the matrices the caller holds: 0.0, 0.5 and 1.0.
EntryValues == {0, SCALE \div 2, SCALE}

\* The r x c nested lists with entries from vals.
RectData(r, c, vals) == [1..r -> [1..c -> vals]]

\* [[0.1, 0.9], [0.9, 0.1]], the matrix of the module's __main__.
MainMatrix == << <<1000, 9000>>, <<9000, 1000>> >>

\* The first matrix the caller holds.
InputMatrices ==
    UNION {RectData(n, n, EntryValues) : n \in 1..MaxSize} \cup {MainMatrix}

\* The second matrix the caller holds.
SecondOperands == UNION {RectData(n, n, {0, SCALE}) : n \in 1..MaxSize}

\* The data handed to create_matrix: empty, with empty rows, flat, tall
\* and square.
RawData ==
    UNION {RectData(r, c, {SCALE \div 2}) : r \in 0..MaxSize, c \in 0..MaxSize}

\* The sizes handed to create_matrix_with_value.
RawSizes == (0 - 1)..MaxSize

InputRefs == {1, 2}

\* The operations that return an array.
ArrayOps == {"create_matrix", "create_matrix_with_value", "empty_matrix",
             "copy_matrix", "soft_max", "matrix_or"}

\* The arrays the next call can be given: the caller's two matrices at
\* first, then the array the last call returned.
ArgRefs ==
    IF lastCall.depth = 0 THEN InputRefs
    ELSE IF lastCall.depth < MaxChain /\ lastCall.op \in ArrayOps /\ ~lastCall.raised
         THEN {lastCall.result}
         ELSE {}

\* The call returns value (not an array).
Returns(op, args, value) ==
    /\ lastCall' = [op |-> op, args |-> args, raised |-> FALSE, result |-> value,
                    prev |-> lastCall.op, depth |-> lastCall.depth + 1]
    /\ UNCHANGED heap

\* The call raises ValueError.
Raises(op, args) ==
    /\ lastCall' = [op |-> op, args |-> args, raised |-> TRUE, result |-> ValueError,
                    prev |-> lastCall.op, depth |-> lastCall.depth + 1]
    /\ UNCHANGED heap

\* The call returns a new array holding content, or raises ValueError when
\* the operation did.
ReturnsArray(op, args, content) ==
    \E v \in {content} :
        IF v = ValueError THEN Raises(op, args)
        ELSE \E c \in {Alloc(heap, v)} :
                /\ heap' = c.h
                /\ lastCall' = [op |-> op, args |-> args, raised |-> FALSE,
                                result |-> c.r, prev |-> lastCall.op,
                                depth |-> lastCall.depth + 1]

\* @dataclass on a class body: a field whose default is a list, dict or set
\* raises ValueError (mutable default is not allowed).
MutableDefaults == {"list", "dict", "set"}
NoDefault == [kind |-> "MISSING", value |-> << >>]
dataclass(fields) ==
    IF \E k \in 1..Len(fields) : fields[k].default.kind \in MutableDefaults
    THEN ValueError
    ELSE fields

\* class State: current_room, matrix, steps, outcomes = []
StateFields ==
    << [name |-> "current_room", default |-> NoDefault],
       [name |-> "matrix", default |-> NoDefault],
       [name |-> "steps", default |-> NoDefault],
       [name |-> "outcomes", default |-> [kind |-> "list", value |-> << >>]] >>

\* What the class statement of State leaves: the class, or ValueError.
State == dataclass(StateFields)

LibInit ==
    /\ \E A \in InputMatrices, B \in SecondOperands :
          heap = Alloc(Alloc(<< >>, A).h, B).h
    /\ lastCall = NoCall
    /\ state = "LIBRARY"
    /\ budget = MaxBudget
    /\ belief = 1
    /\ steps = << >>
    /\ outcomes = << >>
    /\ queryCount = 0
    /\ rounds = 0
    /\ plans = << >>
    /\ inflight = FALSE
    /\ attempts = 0
    /\ response = << >>
    /\ idx = 1
    /\ cancelled = FALSE
    /\ workers = [w \in Workers |-> IdleWorker]
    /\ expanded = 0
    /\ best = NoBest
    /\ mapOut = NoMap
    /\ finalized = FALSE
    /\ roundStart = [matrix |-> empty_matrix, outcomes |-> << >>, queryCount |-> 0]
    /\ calls = << >>
    /\ convergedCount = 0
    /\ note = "library"
    /\ VizStart

CallCreateMatrix(matrix_data) ==
    /\ lastCall.depth = 0
    /\ ReturnsArray("create_matrix", <<matrix_data>>, create_matrix(matrix_data))
    /\ UNCHANGED <<coordinatorVars, vizVars>>

CallCreateMatrixWithValue(size, value) ==
    /\ lastCall.depth = 0
    /\ ReturnsArray("create_matrix_with_value", <<size, value>>,
                    create_matrix_with_value(size, value))
    /\ UNCHANGED <<coordinatorVars, vizVars>>

CallEmptyMatrix ==
    /\ lastCall.depth = 0
    /\ ReturnsArray("empty_matrix", << >>, empty_matrix)
    /\ UNCHANGED <<coordinatorVars, vizVars>>

CallCopyMatrix(a) ==
    /\ \E c \in {copy_matrix(heap, a)} :
          /\ heap' = c.h
          /\ lastCall' = [op |-> "copy_matrix", args |-> <<a>>, raised |-> FALSE,
                          result |-> c.r, prev |-> lastCall.op,
                          depth |-> lastCall.depth + 1]
    /\ UNCHANGED <<coordinatorVars, vizVars>>

CallIsEmpty(a) ==
    /\ Returns("is_empty", <<a>>, is_empty(heap[a]))
    /\ UNCHANGED <<coordinatorVars, vizVars>>

CallSoftMax(a) ==
    /\ ReturnsArray("soft_max", <<a>>, soft_max(heap[a]))
    /\ UNCHANGED <<coordinatorVars, vizVars>>

CallMatrixOr(a, b) ==
    /\ ReturnsArray("matrix_or", <<a, b>>, matrix_or(heap[a], heap[b]))
    /\ UNCHANGED <<coordinatorVars, vizVars>>

CallCalcEntropy(a) ==
    /\ Returns("calc_entropy", <<a>>, calc_entropy(heap[a]))
    /\ UNCHANGED <<coordinatorVars, vizVars>>

CallCountNonZero(a) ==
    /\ Returns("count_non_zero", <<a>>, count_non_zero(heap[a]))
    /\ UNCHANGED <<coordinatorVars, vizVars>>

CallIsValid(a) ==
    /\ Returns("is_valid", <<a>>, is_valid(heap[a]))
    /\ UNCHANGED <<coordinatorVars, vizVars>>

\* One planning round on a belief matrix.
CallPlanRound(a, remaining, door) ==
    /\ Returns("PlanRound", <<a, remaining, door>>,
               PlanRound(heap[a], remaining, door))
    /\ UNCHANGED <<coordinatorVars, vizVars>>

\* State(current_room, matrix, steps) after the class statement of State.
NewState(a) ==
    /\ IF State = ValueError
       THEN Raises("State", <<0, a, << >> >>)
       ELSE Returns("State", <<0, a, << >> >>,
                    [current_room |-> 0, matrix |-> a, steps |-> << >>,
                     outcomes |-> State[4].default.value])
    /\ UNCHANGED <<coordinatorVars, vizVars>>

LibNext ==
    \/ \E matrix_data \in RawData : CallCreateMatrix(matrix_data)
    \/ \E size \in RawSizes, value \in EntryValues :
          CallCreateMatrixWithValue(size, value)
    \/ CallEmptyMatrix
    \/ \E a \in ArgRefs : CallCopyMatrix(a)
    \/ \E a \in ArgRefs : CallIsEmpty(a)
    \/ \E a \in ArgRefs : CallSoftMax(a)
    \/ \E a \in ArgRefs, b \in ArgRefs : CallMatrixOr(a, b)
    \/ \E a \in ArgRefs : CallCalcEntropy(a)
    \/ \E a \in ArgRefs : CallCountNonZero(a)
    \/ \E a \in ArgRefs : CallIsValid(a)
    \/ \E a \in ArgRefs, remaining \in {0, 1, MaxBudget}, door \in {0, DOORS - 1} :
          CallPlanRound(a, remaining, door)
    \/ \E a \in ArgRefs : NewState(a)

LibSpec == LibInit /\ [][LibNext]_vars

\* ------------------------------------------- the visualisation service
\* src/visualization/app.py run by Flask's threaded server: each request
\* is handled in a thread of its own, and the threads interleave between
\* any two statements.  The file is counted in complete lines.
otherVars == <<coordinatorVars, heap, lastCall>>

\* read_jsonl_file(filepath, from_position): the lines after from_position,
\* by their number in the file, and f.tell() at the end of the file.
read_jsonl_file(lines, from_position) ==
    [states |-> [k \in 1..(Len(lines) - from_position) |-> from_position + k],
     new_position |-> Len(lines)]

\* threading.Thread.is_alive of a generator.
is_alive(g) == generators[g] \in {"init", "check", "write"}

\* auto_generation_thread is None or not auto_generation_thread.is_alive()
NotRunning(thread) == thread = 0 \/ ~is_alive(thread)

\* check_for_new_states is called: last_position is read as the argument
\* of read_jsonl_file.
CheckBegin(t) ==
    /\ readers[t].pc = "idle"
    /\ readers' = [readers EXCEPT ![t].pc = "reading",
                                  ![t].from_position = last_position]
    /\ UNCHANGED <<fileLines, graph_states, last_position, states_lock,
                   auto_generation_thread, auto_generation_stop, controls,
                   generators, stopped>>
    /\ UNCHANGED otherVars

\* read_jsonl_file reads the file to its end; without new states
\* check_for_new_states returns.
ReadFile(t) ==
    /\ readers[t].pc = "reading"
    /\ \E r \in {read_jsonl_file(fileLines, readers[t].from_position)} :
          readers' = [readers EXCEPT
                         ![t].pc = IF r.states = << >> THEN "idle" ELSE "extend",
                         ![t].new_states = r.states,
                         ![t].new_position = r.new_position]
    /\ UNCHANGED <<fileLines, graph_states, last_position, states_lock,
                   auto_generation_thread, auto_generation_stop, controls,
                   generators, stopped>>
    /\ UNCHANGED otherVars

\* with states_lock: graph_states.extend(new_states)
Extend(t) ==
    /\ readers[t].pc = "extend"
    /\ states_lock = 0
    /\ Len(graph_states) + Len(readers[t].new_states) <= MaxStates
    /\ states_lock' = t
    /\ graph_states' = graph_states \o readers[t].new_states
    /\ readers' = [readers EXCEPT ![t].pc = "store"]
    /\ UNCHANGED <<fileLines, last_position, auto_generation_thread,
                   auto_generation_stop, controls, generators, stopped>>
    /\ UNCHANGED otherVars

\* last_position = new_position; the lock is released and
\* check_for_new_states returns.
StorePosition(t) ==
    /\ readers[t].pc = "store"
    /\ states_lock = t
    /\ last_position' = readers[t].new_position
    /\ states_lock' = 0
    /\ readers' = [readers EXCEPT ![t].pc = "idle"]
    /\ UNCHANGED <<fileLines, graph_states, auto_generation_thread,
                   auto_generation_stop, controls, generators, stopped>>
    /\ UNCHANGED otherVars

\* The explorer appends a complete line to the watched file.
ExternalAppend ==
    /\ Len(fileLines) < MaxLines
    /\ fileLines' = Append(fileLines, 0)
    /\ UNCHANGED <<graph_states, last_position, states_lock,
                   auto_generation_thread, auto_generation_stop, readers,
                   controls, generators, stopped>>
    /\ UNCHANGED otherVars

\* auto_generate_states before its loop: without states the initial state
\* is appended to the file, else the last state is read under the lock.
GenInit(g) ==
    /\ generators[g] = "init"
    /\ IF graph_states = << >>
       THEN /\ Len(fileLines) < MaxLines
            /\ fileLines' = Append(fileLines, g)
       ELSE /\ states_lock = 0
            /\ UNCHANGED fileLines
    /\ generators' = [generators EXCEPT ![g] = "check"]
    /\ UNCHANGED <<graph_states, last_position, states_lock,
                   auto_generation_thread, auto_generation_stop, readers,
                   controls, stopped>>
    /\ UNCHANGED otherVars

\* while not auto_generation_stop.is_set()
GenCheck(g) ==
    /\ generators[g] = "check"
    /\ generators' = [generators EXCEPT
                         ![g] = IF auto_generation_stop THEN "dead" ELSE "write"]
    /\ UNCHANGED <<fileLines, graph_states, last_position, states_lock,
                   auto_generation_thread, auto_generation_stop, readers,
                   controls, stopped>>
    /\ UNCHANGED otherVars

\* The loop body: the new state is appended to the file, then
\* auto_generation_stop.wait(1) returns, on the event or after a second.
GenWrite(g) ==
    /\ generators[g] = "write"
    /\ Len(fileLines) < MaxLines
    /\ fileLines' = Append(fileLines, g)
    /\ generators' = [generators EXCEPT ![g] = "check"]
    /\ UNCHANGED <<graph_states, last_position, states_lock,
                   auto_generation_thread, auto_generation_stop, readers,
                   controls, stopped>>
    /\ UNCHANGED otherVars

\* action == 'start': the test of the running thread.
StartCheck(c) ==
    /\ controls[c].pc = "idle"
    /\ controls' = [controls EXCEPT ![c] =
          IF NotRunning(auto_generation_thread)
          THEN [pc |-> "start_checked", target |-> 0, response |-> NoResponse]
          ELSE [pc |-> "idle", target |-> 0,
                response |-> [action |-> "start", success |-> FALSE]]]
    /\ UNCHANGED <<fileLines, graph_states, last_position, states_lock,
                   auto_generation_thread, auto_generation_stop, readers,
                   generators, stopped>>
    /\ UNCHANGED otherVars

\* auto_generation_stop.clear(); a new thread is created, stored and
\* started; success is answered.
StartThread(c) ==
    /\ controls[c].pc = "start_checked"
    /\ \E g \in Generators :
          /\ generators[g] = "unborn"
          /\ \A k \in Generators : k < g => generators[k] # "unborn"
          /\ generators' = [generators EXCEPT ![g] = "init"]
          /\ auto_generation_thread' = g
    /\ auto_generation_stop' = FALSE
    /\ controls' = [controls EXCEPT ![c] =
          [pc |-> "idle", target |-> 0,
           response |-> [action |-> "start", success |-> TRUE]]]
    /\ UNCHANGED <<fileLines, graph_states, last_position, states_lock,
                   readers, stopped>>
    /\ UNCHANGED otherVars

\* action == 'stop': the test of the running thread.
StopCheck(c) ==
    /\ controls[c].pc = "idle"
    /\ controls' = [controls EXCEPT ![c] =
          IF ~NotRunning(auto_generation_thread)
          THEN [pc |-> "stop_checked", target |-> 0, response |-> NoResponse]
          ELSE [pc |-> "idle", target |-> 0,
                response |-> [action |-> "stop", success |-> FALSE]]]
    /\ UNCHANGED <<fileLines, graph_states, last_position, states_lock,
                   auto_generation_thread, auto_generation_stop, readers,
                   generators, stopped>>
    /\ UNCHANGED otherVars

\* auto_generation_stop.set(), then auto_generation_thread.join is looked
\* up: on None (another stop got there first) the request fails with
\* AttributeError.
StopSet(c) ==
    /\ controls[c].pc = "stop_checked"
    /\ auto_generation_stop' = TRUE
    /\ controls' = [controls EXCEPT ![c] =
          IF auto_generation_thread = 0
          THEN [pc |-> "idle", target |-> 0,
                response |-> [action |-> "error", success |-> FALSE]]
          ELSE [pc |-> "joining", target |-> auto_generation_thread,
                response |-> NoResponse]]
    /\ UNCHANGED <<fileLines, graph_states, last_position, states_lock,
                   auto_generation_thread, readers, generators, stopped>>
    /\ UNCHANGED otherVars

\* What follows join: auto_generation_thread = None, success is answered.
AfterJoin(c) ==
    /\ auto_generation_thread' = 0
    /\ stopped' = stopped \cup {controls[c].target}
    /\ controls' = [controls EXCEPT ![c] =
          [pc |-> "idle", target |-> 0,
           response |-> [action |-> "stop", success |-> TRUE]]]
    /\ UNCHANGED <<fileLines, graph_states, last_position, states_lock,
                   auto_generation_stop, readers, generators>>
    /\ UNCHANGED otherVars

\* join(timeout=2) returns because the thread has ended.
JoinReturn(c) ==
    /\ controls[c].pc = "joining"
    /\ ~is_alive(controls[c].target)
    /\ AfterJoin(c)

\* join(timeout=2) returns after two seconds, the thread still running.
JoinTimeout(c) ==
    /\ controls[c].pc = "joining"
    /\ is_alive(controls[c].target)
    /\ AfterJoin(c)

VizInit ==
    /\ VizStart
    /\ heap = Alloc(<< >>, empty_matrix).h
    /\ lastCall = NoCall
    /\ state = "VISUALIZATION"
    /\ budget = MaxBudget
    /\ belief = 1
    /\ steps = << >>
    /\ outcomes = << >>
    /\ queryCount = 0
    /\ rounds = 0
    /\ plans = << >>
    /\ inflight = FALSE
    /\ attempts = 0
    /\ response = << >>
    /\ idx = 1
    /\ cancelled = FALSE
    /\ workers = [w \in Workers |-> IdleWorker]
    /\ expanded = 0
    /\ best = NoBest
    /\ mapOut = NoMap
    /\ finalized = FALSE
    /\ roundStart = [matrix |-> empty_matrix, outcomes |-> << >>, queryCount |-> 0]
    /\ calls = << >>
    /\ convergedCount = 0
    /\ note = "visualization"

\* The file is watched: requests call check_for_new_states while the
\* explorer (or a generator, which appends in the same way) adds lines.
\* The readers write nothing the generators and their control read, so
\* the two halves of the service are run apart.
WatchNext ==
    \/ \E t \in Readers : CheckBegin(t)
    \/ \E t \in Readers : ReadFile(t)
    \/ \E t \in Readers : Extend(t)
    \/ \E t \in Readers : StorePosition(t)
    \/ ExternalAppend

WatchSpec == VizInit /\ [][WatchNext]_vars

\* /api/auto_generate is called, and the generators it starts run.
GenNext ==
    \/ \E g \in Generators : GenInit(g)
    \/ \E g \in Generators : GenCheck(g)
    \/ \E g \in Generators : GenWrite(g)
    \/ \E c \in Controls : StartCheck(c)
    \/ \E c \in Controls : StartThread(c)
    \/ \E c \in Controls : StopCheck(c)
    \/ \E c \in Controls : StopSet(c)
    \/ \E c \in Controls : JoinReturn(c)
    \/ \E c \in Controls : JoinTimeout(c)

GenSpec == VizInit /\ [][GenNext]_vars

\* ------------------------------------------------------------------ claims
Terminal == state \in {"DONE", "ABORTED"}

\* C1: the coordinator's state changes only along INITIALIZING -> PLANNING
\* -> AWAITING_RESULTS -> INTEGRATING -> (PLANNING | CONVERGED) ->
\* FINALIZING -> DONE, or to ABORTED from a state that is not final (after
\* exhausted retries, at the round ceiling, or on a cancellation); DONE and
\* ABORTED have no successor.
ListedEdges ==
    {<<"INITIALIZING", "PLANNING">>, <<"PLANNING", "AWAITING_RESULTS">>,
     <<"AWAITING_RESULTS", "INTEGRATING">>, <<"INTEGRATING", "PLANNING">>,
     <<"INTEGRATING", "CONVERGED">>, <<"CONVERGED", "FINALIZING">>,
     <<"FINALIZING", "DONE">>}

DoorsInRange(ps) ==
    \A k \in 1..Len(ps) : \A i \in 1..Len(ps[k]) : ps[k][i] \in 0..5

ValidPerSpec(m) ==
    /\ ~(Len(m) = 1 /\ m[1][1] = 0)
    /\ \A i \in 1..Len(m) : \E j \in 1..Len(m) : m[i][j] > 0
    /\ \A j \in 1..Len(m) : \E i \in 1..Len(m) : m[i][j] > 0

BelowThreshold(m) == FloatLess(calc_entropy(m), EntropyThreshold)

\* C4: CONVERGED is entered at most once; it is entered, from INTEGRATING,
\* only when the belief is valid with entropy below the threshold or the
\* budget is exhausted, and INTEGRATING is never left another way when
\* that holds; and CONVERGED is always followed by FINALIZING.
C4_ConvergedOnce ==
    /\ [](convergedCount <= 1)
    /\ [][state # "CONVERGED" /\ state' = "CONVERGED" =>
            /\ state = "INTEGRATING"
            /\ convergedCount' = convergedCount + 1
            /\ \/ ValidPerSpec(heap'[belief']) /\ BelowThreshold(heap'[belief'])
               \/ queryCount' >= budget]_vars
    /\ [][state = "INTEGRATING" /\ state' \in {"PLANNING", "ABORTED"} =>
            /\ ~(ValidPerSpec(heap[belief]) /\ BelowThreshold(heap[belief]))
            /\ queryCount < budget]_vars
    /\ [][state = "CONVERGED" /\ state' # state => state' = "FINALIZING"]_vars
    /\ (state = "CONVERGED") ~> (state = "FINALIZING")

\* FINALIZING reached through a belief that converged before the budget
\* ran out.
C4_Witness ==
    /\ state = "FINALIZING"
    /\ convergedCount = 1
    /\ queryCount < budget
    /\ BelowThreshold(heap[belief])

AllFailed(cs) == cs # << >> /\ \A i \in 1..Len(cs) : cs[i] # 200

MapOfBelief(map, m) ==
    /\ Len(map) = Size(m)
    /\ \A i \in 1..Size(m) :
          /\ map[i] \in 1..Size(m)
          /\ \A j \in 1..Size(m) : m[i][map[i]] >= m[i][j]

\* C6: whenever the session is in ABORTED, whatever state it came from, the
\* best-effort finalizing step runs afterwards; the belief is not changed
\* after the abort, and the map the step produces is the map of that
\* belief.
C6_BestEffortAfterAbort ==
    /\ (state = "ABORTED") ~> (state = "ABORTED" /\ note = "best effort")
    /\ [](note = "best effort" =>
            /\ state = "ABORTED"
            /\ finalized
            /\ MapOfBelief(mapOut, heap[belief]))
    /\ [][state = "ABORTED" =>
            state' = "ABORTED" /\ heap'[belief'] = heap[belief]]_vars

\* The best-effort step has run on a belief that holds evidence.
C6_Witness ==
    /\ note = "best effort"
    /\ ~is_empty(heap[belief])
    /\ \E i \in 1..Len(mapOut) : mapOut[i] # 1

C8_CooperativeCancel ==
    /\ [][cancelled' # cancelled =>
            /\ cancelled'
            /\ UNCHANGED <<state, inflight, heap, belief, outcomes,
                           queryCount, plans, response, attempts, calls>>]_vars
    /\ [][state' = "ABORTED" /\ note' = "cancelled" /\ state # "ABORTED" =>
            state = "PLANNING" /\ cancelled]_vars
    /\ [][cancelled /\ state = "PLANNING" /\ state' # state =>
            state' = "ABORTED" /\ note' = "cancelled"]_vars
    /\ [][cancelled /\ inflight /\ ~inflight' =>
            /\ Len(calls') = Len(calls) + 1
            /\ response' = << >>
            /\ heap'[belief'] = heap[belief]
            /\ outcomes' = outcomes]_vars
    /\ [][state = "INTEGRATING" /\ response = << >> =>
            /\ response' = << >>
            /\ heap'[belief'] = heap[belief]
            /\ outcomes' = outcomes]_vars

\* A call that was in flight in a cancelled session returned with status
\* 200 and its result was dropped.
C8_Witness ==
    /\ note = "result dropped"
    /\ state = "INTEGRATING"
    /\ cancelled
    /\ calls # << >>
    /\ calls[Len(calls)] = 200
    /\ response = << >>

\* A call result res = [h, r] of a matrix operation on heap: r is a new
\* object holding content, every object of heap is as it was, and stays as
\* it was when r is written to.
FreshResult(res, content) ==
    /\ res.r \notin DOMAIN heap
    /\ res.h[res.r] = content
    /\ \A q \in DOMAIN heap : res.h[q] = heap[q]
    /\ \A q \in DOMAIN heap :
          [res.h EXCEPT ![res.r] = create_matrix_with_value(1, SCALE)][q] = heap[q]

Busy(w) == workers[w].pc \in {"sim", "back"}

\* C9: the content of the authoritative belief matrix changes only in the
\* coordinator's merge step (never during PLANNING, whatever the rollouts
\* do and in whatever order); each rollout works on an object of its own;
\* and copy_matrix, soft_max and matrix_or applied to any objects of the
\* heap return a new object and leave every existing object as it was.
C9_BeliefOwnedByCoordinator ==
    /\ [][heap'[belief'] # heap[belief] \/ belief' # belief =>
            state = "INTEGRATING" /\ note' = "merged" /\ belief' = belief]_vars
    /\ [](\A w \in Workers : Busy(w) =>
            /\ workers[w].priv \in DOMAIN heap
            /\ workers[w].priv # belief
            /\ \A v \in Workers \ {w} :
                  Busy(v) => workers[v].priv # workers[w].priv)
    /\ [](\A r \in DOMAIN heap :
            /\ FreshResult(copy_matrix(heap, r), heap[r])
            /\ FreshResult(soft_max_call(heap, r), soft_max(heap[r]))
            /\ \A q \in DOMAIN heap :
                  Size(heap[q]) = Size(heap[r]) =>
                     FreshResult(matrix_or_call(heap, r, q),
                                 matrix_or(heap[r], heap[q])))

\* Two rollouts are under way and one has changed its private copy, the
\* belief being as it was.
C9_Witness ==
    /\ state = "PLANNING"
    /\ \A w \in Workers : Busy(w)
    /\ \E w \in Workers :
          workers[w].pc = "back" /\ heap[workers[w].priv] # heap[belief]

SixSingleDoorPlans == [k \in 1..6 |-> <<k - 1>>]

C11_EmptyPlansIffConverged ==
    lastCall.op = "PlanRound" =>
        \E m \in {heap[lastCall.args[1]]}, remaining \in {lastCall.args[2]} :
            \E converged \in {ValidPerSpec(m) /\ BelowThreshold(m)} :
                /\ converged => lastCall.result = << >>
                /\ ~converged /\ remaining >= 1 => lastCall.result # << >>

\* A planning round with budget left on a valid belief below the threshold.
C11_Witness ==
    /\ lastCall.op = "PlanRound"
    /\ lastCall.args[2] >= 1
    /\ ValidPerSpec(heap[lastCall.args[1]])
    /\ BelowThreshold(heap[lastCall.args[1]])
    /\ lastCall.result = << >>

\* Two floats agree within tolerance (five units of the fixed-point grid).
Close(x, y) == x - y <= 5 /\ y - x <= 5

MatClose(m1, m2) ==
    /\ Size(m1) = Size(m2)
    /\ \A i \in 1..Size(m1), j \in 1..Size(m1) : Close(m1[i][j], m2[i][j])

Symmetric(m) == \A i \in 1..Size(m), j \in 1..Size(m) : m[i][j] = m[j][i]

\* soft_max was called on the array a call of soft_max returned.
SoftMaxTwice ==
    lastCall.op = "soft_max" /\ lastCall.prev = "soft_max" /\ lastCall.depth = 2

\* C13 as stated: for any matrix M, soft_max(soft_max(M)) equals
\* soft_max(M) entry by entry, within floating tolerance.
C13_Idempotent ==
    SoftMaxTwice => MatClose(heap[lastCall.result], heap[lastCall.args[1]])

\* C13, amended: for a 1 x 1 matrix M (the empty sentinel included)
\* soft_max(soft_max(M)) equals soft_max(M); for a larger M the second
\* application returns a symmetric matrix of the size of M, whose entries
\* need not be those of soft_max(M).
C13_IdempotentOnOneByOne ==
    SoftMaxTwice =>
        \E once \in {heap[lastCall.args[1]]}, twice \in {heap[lastCall.result]} :
            /\ Size(twice) = Size(once)
            /\ Symmetric(twice)
            /\ Size(once) = 1 => MatClose(twice, once)

\* soft_max applied twice to a 2 x 2 matrix, the second result away from
\* the first.
C13_Witness ==
    /\ SoftMaxTwice
    /\ Size(heap[lastCall.result]) = 2
    /\ Symmetric(heap[lastCall.result])
    /\ ~MatClose(heap[lastCall.result], heap[lastCall.args[1]])

RowsSumToOne(m) == \A i \in 1..Size(m) : Close(SeqSum(m[i]), SCALE)

\* A call of matrix_or or soft_max on matrices none of which is the sentinel
\* returned.
NormalizedNonSentinel ==
    /\ lastCall.op \in {"matrix_or", "soft_max"}
    /\ ~lastCall.raised
    /\ \A k \in 1..Len(lastCall.args) : ~is_empty(heap[lastCall.args[k]])

\* C14: after matrix_or, and after soft_max, of square matrices that are
\* not the sentinel, the result is symmetric and every row of it sums to 1.
C14_SymmetricRowsSumToOne ==
    NormalizedNonSentinel =>
        /\ Symmetric(heap[lastCall.result])
        /\ RowsSumToOne(heap[lastCall.result])

\* Scenario 3: [[0,1],[1,0]] merged with [[1,0],[0,1]].
C14_Scenario3 ==
    /\ lastCall.op = "matrix_or"
    /\ lastCall.args = <<1, 2>>
    /\ heap[1] = << <<0, SCALE>>, <<SCALE, 0>> >>
    /\ heap[2] = << <<SCALE, 0>>, <<0, SCALE>> >>
    /\ ~RowsSumToOne(heap[lastCall.result])

\* Two floats are equal within tolerance; a nan equals nothing, itself
\* included.
FloatClose(x, y) == x # NaN /\ y # NaN /\ Close(x, y)

\* matrix_or returned, for two arrays of one size.
Merged == lastCall.op = "matrix_or" /\ ~lastCall.raised

\* C15: for matrices A and B of one size, matrix_or(A, B) and
\* matrix_or(B, A) are the same matrix and have equal entropy within
\* tolerance.
C15_OrderIndependent ==
    Merged =>
        \E ab \in {heap[lastCall.result]},
           ba \in {matrix_or(heap[lastCall.args[2]], heap[lastCall.args[1]])} :
            /\ ab = ba
            /\ FloatClose(calc_entropy(ab), calc_entropy(ba))

\* A merge of two different 1 x 1 matrices whose result is the same in
\* both orders and has no entropy to compare.
C15_Witness ==
    /\ Merged
    /\ heap[lastCall.args[1]] # heap[lastCall.args[2]]
    /\ heap[lastCall.result] =
          matrix_or(heap[lastCall.args[2]], heap[lastCall.args[1]])
    /\ calc_entropy(heap[lastCall.result]) = NaN

AllZeroRow(m) == \E i \in 1..Size(m) : \A j \in 1..Size(m) : m[i][j] = 0
AllZeroColumn(m) == \E j \in 1..Size(m) : \A i \in 1..Size(m) : m[i][j] = 0

\* C16: is_valid is false for the empty sentinel and for a matrix with an
\* all-zero row or an all-zero column, and true for every other matrix
\* (entries in [0, 1]).
C16_ValidUnlessZeroLine ==
    lastCall.op = "is_valid" =>
        \E m \in {heap[lastCall.args[1]]} :
            lastCall.result =
                ~(m = << <<0>> >> \/ AllZeroRow(m) \/ AllZeroColumn(m))

\* is_valid returned false for a matrix without an all-zero row, because
\* of an all-zero column.
C16_Witness ==
    /\ lastCall.op = "is_valid"
    /\ lastCall.result = FALSE
    /\ ~AllZeroRow(heap[lastCall.args[1]])
    /\ AllZeroColumn(heap[lastCall.args[1]])

\* The n x n matrix whose entries are all 0.5.
Uniform(m) == \A i \in 1..Size(m), j \in 1..Size(m) : m[i][j] = SCALE \div 2

\* C17: calc_entropy is never negative (so it is a number), it is 0 for the
\* empty sentinel, and for the n x n matrix of entries 0.5 it is n(n+1)/2.
C17_EntropyNonNegative ==
    lastCall.op = "calc_entropy" =>
        \E m \in {heap[lastCall.args[1]]}, e \in {lastCall.result} :
            /\ e # NaN /\ e >= 0
            /\ is_empty(m) => e = 0
            /\ Uniform(m) => Close(e, ((Size(m) * (Size(m) + 1)) \div 2) * SCALE)

\* The entropy of the 2 x 2 matrix of entries 0.5 is 3 bits.
C17_Witness ==
    /\ lastCall.op = "calc_entropy"
    /\ Size(heap[lastCall.args[1]]) = 2
    /\ Uniform(heap[lastCall.args[1]])
    /\ lastCall.result = 3 * SCALE

\* The nine operations of the belief matrix.
MatrixOps == ArrayOps \cup {"is_empty", "calc_entropy", "count_non_zero", "is_valid"}

\* C18 as stated: every operation of the belief matrix is total; on any
\* input it raises no error and returns a value.
C18_Total == lastCall.op \in MatrixOps => ~lastCall.raised

\* The last call was given malformed input: create_matrix data that is
\* empty or not square, create_matrix_with_value a size of 0 or less,
\* matrix_or two matrices of different sizes.
Malformed ==
    \/ /\ lastCall.op = "create_matrix"
       /\ \E data \in {lastCall.args[1]} :
             \/ Len(data) = 0
             \/ Len(data[1]) = 0
             \/ Len(data[1]) # Len(data)
    \/ /\ lastCall.op = "create_matrix_with_value"
       /\ lastCall.args[1] <= 0
    \/ /\ lastCall.op = "matrix_or"
       /\ Size(heap[lastCall.args[1]]) # Size(heap[lastCall.args[2]])

\* The value the last call returned is of the type of its operation.
WellTyped ==
    \/ /\ lastCall.op \in ArrayOps
       /\ lastCall.result \in DOMAIN heap
       /\ \E m \in {heap[lastCall.result]} :
             Size(m) >= 1 /\ \A i \in 1..Size(m) : Len(m[i]) = Size(m)
    \/ lastCall.op \in {"is_empty", "is_valid"} /\ lastCall.result \in BOOLEAN
    \/ lastCall.op = "count_non_zero" /\ lastCall.result \in Nat
    \/ lastCall.op = "calc_entropy" /\ lastCall.result \in Int

\* C18, amended: copy, isEmpty, softMaxNormalize, entropy, countNonZero and
\* isValid raise no error on any square matrix, the empty sentinel
\* included; create raises ValueError on data that is empty or not square,
\* createWithValue on a size of 0 or less, merge on operands of different
\* sizes, and on every other input they too return without error.
C18_RaisesOnlyOnMalformed ==
    lastCall.op \in MatrixOps =>
        /\ lastCall.raised <=> Malformed
        /\ ~lastCall.raised => WellTyped

\* matrix_or raised on two matrices of different sizes.
C18_Witness ==
    /\ lastCall.op = "matrix_or"
    /\ lastCall.raised
    /\ Size(heap[lastCall.args[1]]) # Size(heap[lastCall.args[2]])

\* The entries of a row, and of a matrix, that differ from zero, counted
\* one by one.
RECURSIVE NonZeroIn(_)
NonZeroIn(row) ==
    IF row = << >> THEN 0
    ELSE (IF Head(row) # 0 THEN 1 ELSE 0) + NonZeroIn(Tail(row))

NonZeroEntries(m) == SeqSum([i \in 1..Size(m) |-> NonZeroIn(m[i])])

\* C19: count_non_zero returns the number of entries that differ from
\* zero; for an n x n matrix without a zero entry that is n * n, and
\* is_valid is true for that matrix.
C19_CountsNonZeroEntries ==
    lastCall.op = "count_non_zero" =>
        \E m \in {heap[lastCall.args[1]]} :
            /\ lastCall.result = NonZeroEntries(m)
            /\ (\A i \in 1..Size(m), j \in 1..Size(m) : m[i][j] # 0) =>
                  lastCall.result = Size(m) * Size(m) /\ is_valid(m)

\* Scenario 2: count_non_zero of [[0.1, 0.9], [0.9, 0.1]] is 4, and the
\* matrix is valid.
C19_Witness ==
    /\ lastCall.op = "count_non_zero"
    /\ heap[lastCall.args[1]] = MainMatrix
    /\ lastCall.result = 4
    /\ is_valid(MainMatrix)

\* C20: a State created without passing an outcome list exists and starts
\* with an empty outcome log of its own.
C20_FreshOutcomeLog ==
    lastCall.op = "State" =>
        /\ ~lastCall.raised
        /\ lastCall.result.outcomes = << >>

\* State(0, matrix, []) was attempted and ValueError came out of the class
\* statement.
C20_Witness ==
    /\ lastCall.op = "State"
    /\ lastCall.raised
    /\ State = ValueError

\* m is an n x n matrix with n >= 1.
Square(m) == Size(m) >= 1 /\ \A i \in 1..Size(m) : Len(m[i]) = Size(m)

\* C21: every matrix the module returns is square with size at least 1;
\* copy_matrix, soft_max and matrix_or return a matrix of the size of
\* their argument(s), and matrix_or of matrices of different sizes (the
\* sentinel and a larger matrix) returns no matrix.
C21_SquareSameSize ==
    lastCall.op \in ArrayOps =>
        /\ ~lastCall.raised =>
              /\ Square(heap[lastCall.result])
              /\ lastCall.op \in {"copy_matrix", "soft_max", "matrix_or"} =>
                    \A k \in 1..Len(lastCall.args) :
                        Size(heap[lastCall.result]) = Size(heap[lastCall.args[k]])
        /\ /\ lastCall.op = "matrix_or"
           /\ Size(heap[lastCall.args[1]]) # Size(heap[lastCall.args[2]])
           => lastCall.raised

\* matrix_or of the sentinel with a 2 x 2 matrix returned no matrix.
C21_Witness ==
    /\ lastCall.op = "matrix_or"
    /\ is_empty(heap[lastCall.args[2]])
    /\ Size(heap[lastCall.args[1]]) = 2
    /\ lastCall.raised
    /\ DOMAIN heap = InputRefs

ZeroRow(m, i) == \A j \in 1..Size(m) : m[i][j] = 0

\* C22: soft_max leaves a row without evidence as it was; in particular an
\* all-zero row of a matrix that is not the sentinel has the same entries
\* after soft_max as before.
C22_ZeroRowUnchanged ==
    lastCall.op = "soft_max" /\ ~is_empty(heap[lastCall.args[1]]) =>
        \E before \in {heap[lastCall.args[1]]}, after \in {heap[lastCall.result]} :
            \A i \in 1..Size(before) : ZeroRow(before, i) => after[i] = before[i]

\* soft_max of the 2 x 2 zero matrix, no row of which came back as it was.
C22_Witness ==
    /\ lastCall.op = "soft_max"
    /\ Size(heap[lastCall.args[1]]) = 2
    /\ \A i \in 1..2 : ZeroRow(heap[lastCall.args[1]], i)
    /\ \A i \in 1..2 : ~ZeroRow(heap[lastCall.result], i)

\* The caller holds the sentinel twice, and the last call was made on the
\* result of merging the two.
OnMergedSentinels ==
    /\ heap[1] = << <<0>> >> /\ heap[2] = << <<0>> >>
    /\ lastCall.prev = "matrix_or"
    /\ lastCall.depth = 2

\* C23: soft_max of the sentinel is the sentinel and matrix_or of two
\* sentinels is the sentinel, so after merges of the sentinel with itself
\* is_empty is still true, calc_entropy 0 and is_valid false; soft_max of
\* any other 1 x 1 matrix is [[1.0]].
C23_SentinelFixedPoint ==
    /\ lastCall.op = "soft_max" /\ Size(heap[lastCall.args[1]]) = 1 =>
          heap[lastCall.result] =
              IF heap[lastCall.args[1]][1][1] = 0 THEN << <<0>> >> ELSE << <<SCALE>> >>
    /\ /\ lastCall.op = "matrix_or"
       /\ \A k \in 1..2 : heap[lastCall.args[k]] = << <<0>> >>
       => ~lastCall.raised /\ heap[lastCall.result] = << <<0>> >>
    /\ OnMergedSentinels =>
          /\ lastCall.op = "matrix_or" => heap[lastCall.result] = << <<0>> >>
          /\ lastCall.op = "soft_max" => heap[lastCall.result] = << <<0>> >>
          /\ lastCall.op = "is_empty" => lastCall.result = TRUE
          /\ lastCall.op = "calc_entropy" => lastCall.result = 0
          /\ lastCall.op = "is_valid" => lastCall.result = FALSE

\* The merge of two sentinels merged with itself: still the sentinel.
C23_Witness ==
    /\ OnMergedSentinels
    /\ lastCall.op = "matrix_or"
    /\ lastCall.args = <<3, 3>>
    /\ heap[lastCall.result] = << <<0>> >>

\* graph_states holds the lines 1, 2, ... of the file, each once, in file
\* order and without a gap.
EachLineOnceInOrder ==
    /\ Len(graph_states) <= Len(fileLines)
    /\ \A i \in 1..Len(graph_states) : graph_states[i] = i

\* C24: under any interleaving of appends to the watched file and calls of
\* check_for_new_states, every complete line is added to graph_states
\* exactly once and in file order, and last_position never moves backwards.
C24_EachLineOnce ==
    /\ []EachLineOnceInOrder
    /\ [][last_position' >= last_position]_vars

\* Two requests read the same new line and both added it.
C24_Witness ==
    /\ Len(fileLines) = 2
    /\ graph_states = <<1, 2, 2>>
    /\ \A t \in Readers : readers[t].new_states = <<2>>

AliveGenerators == {g \in Generators : is_alive(g)}

\* The lines of the file written by generator g.
WrittenBy(lines, g) == {i \in 1..Len(lines) : lines[i] = g}

\* C25: over any interleaving of start and stop requests at most one
\* auto-generation thread is alive; a start while a generator is alive
\* starts nothing, a stop with no live generator answers success false,
\* and a generator a stop answered success for appends nothing more.
C25_OneGenerator ==
    /\ [](Cardinality(AliveGenerators) <= 1)
    /\ [][\A c \in Controls : StartThread(c) => AliveGenerators = {}]_vars
    /\ [][\A c \in Controls :
             StopCheck(c) /\ AliveGenerators = {} =>
                 controls'[c].response = [action |-> "stop", success |-> FALSE]]_vars
    /\ [][\A g \in stopped : WrittenBy(fileLines', g) = WrittenBy(fileLines, g)]_vars

\* Two start requests passed the test before either stored its thread:
\* both were answered success, and two generators are alive.
C25_Witness ==
    /\ Cardinality(AliveGenerators) = 2
    /\ \A c \in Controls :
          controls[c].response = [action |-> "start", success |-> TRUE]


====
